---- MODULE Spec2Model ----
(***************************************************************************)
(* The Overview screen of kdash (src/src/ui/overview.rs): draw_overview    *)
(* and the panel renderers it calls, as a state machine over the           *)
(* application state `app` and what one render pass hands to the drawing    *)
(* surface.                                                                *)
(*                                                                         *)
(* Values.  Option<T> is a sequence of length at most one.  A Rect is a    *)
(* record x, y, width, height.  An f64 is an exact fraction num/den (the   *)
(* samples drawn are integers, so every value the code computes is a       *)
(* fraction); den = 0 stands for NaN, the result of 0.0 / 0.0.  A String   *)
(* is a sequence of one-byte characters, so String::len is Len.            *)
(***************************************************************************)
EXTENDS Integers, Sequences, FiniteSets, TLC

VARIABLES
  app,              \* the App the renderers receive as &mut App
  overflow_checks,  \* build profile: TRUE = integer overflow panics, FALSE = it wraps
  entry,            \* the public function last called and the Rect it was given
  locals,           \* draw_overview's locals: constraints and chunks of the last pass
  calls,            \* the renderers invoked during the last pass, in order, with their Rect
  frame,            \* the widgets rendered during the last pass, in order
  cursor,           \* Frame::set_cursor of the last pass: None or Some(<<x, y>>)
  panicked,         \* the last pass unwound with a panic
  result            \* the last direct call of get_nm_ratio: None or Some(field, value)

vars == <<app, overflow_checks, entry, locals, calls, frame, cursor, panicked, result>>

----------------------------------------------------------------------------
(* Bounds of the model *)

MaxNs == 7
MaxClis == 2
MaxMetrics == 2
MaxFilterLen == 1
MaxHeight == 23
AreaWidth == 120

(* u16::MAX, the largest coordinate of a Rect *)
U16Max == 65535

----------------------------------------------------------------------------
(* Values *)

None == <<>>
Some(x) == <<x>>

Rect(x, y, w, h) == [x |-> x, y |-> y, width |-> w, height |-> h]

Length(v) == [kind |-> "Length", v |-> v]
Min(v) == [kind |-> "Min", v |-> v]

SatSub(a, b) == IF a > b THEN a - b ELSE 0

Abs(n) == IF n < 0 THEN -n ELSE n

RECURSIVE Gcd(_, _)
Gcd(a, b) == IF b = 0 THEN a ELSE Gcd(b, a % b)

(* The f64 n / d for integers n and d >= 0, in lowest terms; 0/0 is NaN. *)
Frac(n, d) ==
  IF d = 0 THEN [num |-> 0, den |-> 0]
  ELSE LET g == Gcd(Abs(n), d) IN [num |-> n \div g, den |-> d \div g]

IsNaN(r) == r.den = 0

(* r > 1.0 as f64 comparison: false for NaN *)
GtOne(r) == r.den # 0 /\ r.num > r.den

(* format!("{:.0}%", r * 100.0): the integers a correctly rounded r * 100  *)
(* can print as: pct is the integer before the % sign, nan marks the text  *)
(* "NaN%".  On an exact tie the last bit of the f64 product decides,  *)
(* so both neighbours are possible; otherwise the nearest integer.         *)
Label(r) ==
  IF IsNaN(r) THEN {[nan |-> TRUE, pct |-> 0]}
  ELSE LET n == r.num * 100
           lo == n \div r.den
           twice == (n % r.den) * 2
       IN {[nan |-> FALSE, pct |-> p] :
             p \in (IF twice < r.den THEN {lo} ELSE IF twice > r.den THEN {lo + 1} ELSE {lo, lo + 1})}

----------------------------------------------------------------------------
(* Styles and blocks of ui::utils, as the semantic style they select *)

style_default(light) == <<"default", light>>
style_primary(light) == <<"primary", light>>
style_secondary(light) == <<"secondary", light>>
style_failure(light) == <<"failure", light>>
style_logo(light) == <<"logo", light>>

layout_block_default(title) == [title |-> title, style |-> <<"block_default">>]

nw_loading_indicator(loading) == IF loading THEN "..." ELSE ""

----------------------------------------------------------------------------
(* Layout: ui::utils::{vertical_chunks, horizontal_chunks,                  *)
(* vertical_chunks_with_margin} split a Rect along one axis.  When the     *)
(* constraints fit, a Length(v) region is exactly v, a Min(v) region is at *)
(* least v, and the regions fill the Rect.  When they do not fit, the       *)
(* regions still tile the Rect and no region exceeds what it asked for;    *)
(* which one gives way is left open.                                       *)

RECURSIVE SumV(_)
SumV(cs) == IF cs = <<>> THEN 0 ELSE Head(cs).v + SumV(Tail(cs))

RECURSIVE Sizes(_, _, _)
Sizes(cs, total, fits) ==
  IF cs = <<>> THEN (IF total = 0 THEN {<<>>} ELSE {})
  ELSE LET c == Head(cs)
           range == IF fits
                    THEN (IF c.kind = "Length" THEN {c.v} ELSE c.v..(total - SumV(Tail(cs))))
                    ELSE 0..(IF c.v < total THEN c.v ELSE total)
       IN UNION {{<<h>> \o r : r \in Sizes(Tail(cs), total - h, fits)} : h \in range}

RECURSIVE Before(_, _)
Before(hs, i) == IF i <= 1 THEN 0 ELSE hs[i - 1] + Before(hs, i - 1)

vertical_chunks(cs, area) ==
  {[i \in 1..Len(cs) |-> Rect(area.x, area.y + Before(hs, i), area.width, hs[i])] :
     hs \in Sizes(cs, area.height, SumV(cs) <= area.height)}

horizontal_chunks(cs, area) ==
  {[i \in 1..Len(cs) |-> Rect(area.x + Before(ws, i), area.y, ws[i], area.height)] :
     ws \in Sizes(cs, area.width, SumV(cs) <= area.width)}

(* Rect::inner: the Rect shrunk by the margin on every side, empty when it does not fit *)
Inner(area, m) ==
  IF area.width < 2 * m \/ area.height < 2 * m THEN Rect(0, 0, 0, 0)
  ELSE Rect(area.x + m, area.y + m, area.width - 2 * m, area.height - 2 * m)

vertical_chunks_with_margin(cs, area, m) == vertical_chunks(cs, Inner(area, m))

----------------------------------------------------------------------------
(* A render pass threads one state through the renderers: the App behind   *)
(* the &mut reference, the calls made, the widgets rendered, the cursor,   *)
(* and whether the pass has panicked (a panic unwinds: nothing after it     *)
(* runs).                                                                  *)

Call(s, fn, area) == [s EXCEPT !.calls = Append(@, [fn |-> fn, area |-> area])]

Render(s, w) == [s EXCEPT !.frame = Append(@, w)]

Panic(s) == [s EXCEPT !.panicked = TRUE]

(* ui::utils::loading: the loading-or-empty placeholder *)
loading(s, panel, block, area, is_loading, light) ==
  Render(s, [panel |-> panel, widget |-> "placeholder", block |-> block, area |-> area,
             is_loading |-> is_loading, light_theme |-> light])

(* ui::resource_tabs::draw_resource_tabs_block: opaque to this file *)
draw_resource_tabs_block(s, area) ==
  IF s.panicked THEN s ELSE Call(s, "draw_resource_tabs_block", area)

----------------------------------------------------------------------------
(* get_nm_ratio *)

RECURSIVE SumField(_, _)
SumField(nm, f) == IF nm = <<>> THEN 0 ELSE Head(nm)[f] + SumField(Tail(nm), f)

(* f64 division of r by the integer n >= 0; 0.0 / 0.0 is NaN *)
FDiv(r, n) == IF IsNaN(r) \/ n = 0 THEN Frac(0, 0) ELSE Frac(r.num, r.den * n)

(* get_nm_ratio clamping its result to 1.0 *)
get_nm_ratio_Clamped(node_metrics, f) ==
  IF node_metrics # <<>>
  THEN LET sum == Frac(SumField(node_metrics, f), 1)
           r == FDiv(FDiv(sum, Len(node_metrics)), 100)
       IN IF GtOne(r) THEN Frac(1, 1) ELSE r
  ELSE Frac(0, 1)

(* get_nm_ratio without the is_empty test: 0.0 / 0 as f64 *)
get_nm_ratio_Unguarded(node_metrics, f) ==
  FDiv(FDiv(Frac(SumField(node_metrics, f), 1), Len(node_metrics)), 100)

get_nm_ratio(node_metrics, f) ==
  IF node_metrics # <<>>
  THEN LET sum == Frac(SumField(node_metrics, f), 1)
       IN FDiv(FDiv(sum, Len(node_metrics)), 100)
  ELSE Frac(0, 1)

(* the gauge ratio without the clamp *)
limited_ratio_Unclamped(ratio) == ratio

limited_ratio(ratio) == IF GtOne(ratio) THEN Frac(1, 1) ELSE ratio

----------------------------------------------------------------------------
(* draw_filter *)

FilterTitle == " Filter (toggle) "

draw_filter(s, area, checks) ==
  IF s.panicked THEN s
  ELSE LET s0 == Call(s, "draw_filter", area)
           active == s.app.active_block = "Filter"
           block0 == layout_block_default(FilterTitle)
           block == IF active
                    THEN [block0 EXCEPT !.style = style_secondary(s.app.light_theme)]
                    ELSE block0
           len16 == Len(s.app.filter) % (U16Max + 1)
           x2 == area.x + 2
           cx == (x2 % (U16Max + 1)) + len16
           cy == area.y + 1
           overflow == x2 > U16Max \/ cx > U16Max \/ cy > U16Max
           s1 == IF active
                 THEN [s0 EXCEPT !.cursor = Some(<<cx % (U16Max + 1), cy % (U16Max + 1)>>)]
                 ELSE s0
       IN IF active /\ overflow /\ checks THEN Panic(s0)
          ELSE Render(s1, [panel |-> "filter", widget |-> "paragraph",
                           text |-> s.app.filter, block |-> block, area |-> area])

----------------------------------------------------------------------------
(* draw_logo_block *)

draw_logo_block(s, area) ==
  IF s.panicked THEN s
  ELSE Render(Call(s, "draw_logo_block", area),
              [panel |-> "logo", widget |-> "paragraph",
               text |-> <<"BANNER", "version", nw_loading_indicator(s.app.is_loading)>>,
               style |-> style_logo(s.app.light_theme), area |-> area])

----------------------------------------------------------------------------
(* draw_cli_version_block *)

CliRow(c, light) ==
  [name |-> c.name, version |-> c.version,
   style |-> IF c.status THEN style_primary(light) ELSE style_failure(light)]

(* draw_cli_version_block showing the placeholder whenever is_loading is set *)
draw_cli_version_block_LoadingFirst(s, area) ==
  IF s.panicked THEN s
  ELSE LET s0 == Call(s, "draw_cli_version_block", area)
           block == layout_block_default(" CLI Info ")
           clis == s.app.clis
       IN IF clis # <<>> /\ ~s.app.is_loading
          THEN Render(s0, [panel |-> "cli", widget |-> "table",
                           rows |-> [i \in 1..Len(clis) |-> CliRow(clis[i], s.app.light_theme)],
                           block |-> block, area |-> area])
          ELSE loading(s0, "cli", block, area, s.app.is_loading, s.app.light_theme)

draw_cli_version_block(s, area) ==
  IF s.panicked THEN s
  ELSE LET s0 == Call(s, "draw_cli_version_block", area)
           block == layout_block_default(" CLI Info ")
           clis == s.app.clis
       IN IF clis # <<>>
          THEN Render(s0, [panel |-> "cli", widget |-> "table",
                           rows |-> [i \in 1..Len(clis) |-> CliRow(clis[i], s.app.light_theme)],
                           block |-> block, area |-> area])
          ELSE loading(s0, "cli", block, area, s.app.is_loading, s.app.light_theme)

----------------------------------------------------------------------------
(* draw_context_info_block *)

ContextConstraints == <<Length(3), Min(2), Min(2)>>

ContextText(active_context, light) ==
  IF active_context # None
  THEN <<[label |-> "Context: ", value |-> active_context[1].name, style |-> style_primary(light)],
         [label |-> "Cluster: ", value |-> active_context[1].cluster, style |-> style_primary(light)],
         [label |-> "User: ", value |-> active_context[1].user, style |-> style_primary(light)]>>
  ELSE <<[label |-> "", value |-> "Context information not found", style |-> style_failure(light)]>>

Gauge(title, ratio, label, s, area) ==
  [panel |-> "context", widget |-> "gauge", title |-> title,
   gauge_style |-> style_primary(s.app.light_theme),
   line_set |-> s.app.enhanced_graphics,
   ratio |-> limited_ratio(ratio), label |-> label, area |-> area]

(* chunks is the split of the panel chosen among                            *)
(* vertical_chunks_with_margin(ContextConstraints, area, 1); cpu_label and *)
(* mem_label are the rounded labels chosen among Label(ratio).             *)
draw_context_info_block(s, area, chunks, cpu_label, mem_label) ==
  IF s.panicked THEN s
  ELSE LET s0 == Call(s, "draw_context_info_block", area)
           block == layout_block_default(" Context Info (toggle <i>) ")
           s1 == Render(s0, [panel |-> "context", widget |-> "block", block |-> block,
                             area |-> area])
           s2 == Render(s1, [panel |-> "context", widget |-> "paragraph",
                             text |-> ContextText(s.app.active_context, s.app.light_theme),
                             area |-> chunks[1]])
           cpu == get_nm_ratio(s.app.node_metrics, "cpu_percent")
           s3 == Render(s2, Gauge("CPU:", cpu, cpu_label, s, chunks[2]))
           mem == get_nm_ratio(s.app.node_metrics, "mem_percent")
       IN Render(s3, Gauge("Memory:", mem, mem_label, s, chunks[3]))

----------------------------------------------------------------------------
(* draw_namespaces_block *)

(* NsRowStyle treating "no namespace selected" as "every namespace selected" *)
NsRowStyle_NoneSelectsAll(ns, selected_ns, light) ==
  IF selected_ns = None \/ Some(ns.name) = selected_ns
  THEN style_secondary(light)
  ELSE style_primary(light)

NsRowStyle(ns, selected_ns, light) ==
  IF Some(ns.name) = selected_ns THEN style_secondary(light) ELSE style_primary(light)

NsRows(items, selected_ns, light) ==
  [i \in 1..Len(items) |->
     [name |-> items[i].name, status |-> items[i].status,
      style |-> NsRowStyle(items[i], selected_ns, light)]]

(* Frame::render_stateful_widget(table, area, &mut app.data.namespaces.state): *)
(* the Table widget owns the scroll offset behind the reference.  It keeps    *)
(* the selected row (row 0 when nothing is selected) inside the rows that     *)
(* fit below the border and the header, one line each, and writes the         *)
(* resulting first visible row back to state.offset.  It draws nothing, and   *)
(* writes nothing, into an empty Rect.                                        *)
TableState(n, state, area) ==
  IF area.width = 0 \/ area.height = 0 THEN state
  ELSE LET inner == SatSub(area.height, 2)
           rows_height == SatSub(inner, 1)
           sel0 == IF state.selected = None THEN 0 ELSE state.selected[1]
           sel == IF sel0 < n - 1 THEN sel0 ELSE n - 1
           start == IF sel < state.offset THEN sel
                    ELSE IF sel >= state.offset + rows_height
                         THEN (IF rows_height = 0 THEN sel ELSE sel + 1 - rows_height)
                         ELSE state.offset
       IN [state EXCEPT !.offset = start]

(* draw_namespaces_block selecting the first row when no row is selected *)
draw_namespaces_block_SelectsFirst(s, area) ==
  IF s.panicked THEN s
  ELSE LET s0 == Call(s, "draw_namespaces_block", area)
           block0 == layout_block_default(" Namespaces (all) ")
           block == IF s.app.active_block = "Namespaces"
                    THEN [block0 EXCEPT !.style = style_secondary(s.app.light_theme)]
                    ELSE block0
           items == s.app.namespaces.items
           state == IF s.app.namespaces.state.selected = None
                    THEN [s.app.namespaces.state EXCEPT !.selected = Some(0)]
                    ELSE s.app.namespaces.state
       IN IF items # <<>>
          THEN LET s1 == Render(s0, [panel |-> "namespaces", widget |-> "table",
                                     rows |-> NsRows(items, s.app.selected_ns, s.app.light_theme),
                                     header |-> <<"Name", "Status">>,
                                     block |-> block, area |-> area])
               IN [s1 EXCEPT !.app.namespaces.state = TableState(Len(items), state, area)]
          ELSE loading(s0, "namespaces", block, area, s.app.is_loading, s.app.light_theme)

draw_namespaces_block(s, area) ==
  IF s.panicked THEN s
  ELSE LET s0 == Call(s, "draw_namespaces_block", area)
           block0 == layout_block_default(" Namespaces (all) ")
           block == IF s.app.active_block = "Namespaces"
                    THEN [block0 EXCEPT !.style = style_secondary(s.app.light_theme)]
                    ELSE block0
           items == s.app.namespaces.items
       IN IF items # <<>>
          THEN LET s1 == Render(s0, [panel |-> "namespaces", widget |-> "table",
                                     rows |-> NsRows(items, s.app.selected_ns, s.app.light_theme),
                                     header |-> <<"Name", "Status">>,
                                     block |-> block, area |-> area])
               IN [s1 EXCEPT !.app.namespaces.state =
                                TableState(Len(items), s.app.namespaces.state, area)]
          ELSE loading(s0, "namespaces", block, area, s.app.is_loading, s.app.light_theme)

----------------------------------------------------------------------------
(* draw_status_block *)

StatusConstraints == <<Length(35), Min(10), Length(30), Length(32)>>

(* chunks is the split chosen among horizontal_chunks(StatusConstraints, area) *)
draw_status_block(s, area, chunks, context_chunks, cpu_label, mem_label) ==
  IF s.panicked THEN s
  ELSE LET s0 == Call(s, "draw_status_block", area)
           s1 == draw_namespaces_block(s0, chunks[1])
           s2 == draw_context_info_block(s1, chunks[2], context_chunks, cpu_label, mem_label)
           s3 == draw_cli_version_block(s2, chunks[3])
       IN draw_logo_block(s3, chunks[4])

----------------------------------------------------------------------------
(* draw_overview *)

(* Constraints with the filter bar pushed in an else branch of the status bar *)
Constraints_ElseIf(a) ==
  LET c1 == IF a.show_info_bar THEN <<Length(9)>>
            ELSE IF a.show_filter THEN <<Length(3)>> ELSE <<>>
  IN Append(c1, Min(10))

Constraints(a) ==
  LET c1 == IF a.show_info_bar THEN <<Length(9)>> ELSE <<>>
      c2 == IF a.show_filter THEN Append(c1, Length(3)) ELSE c1
  IN Append(c2, Min(10))

(* chunks[chunks_index] with Rust's bounds check: the renderer runs on the  *)
(* indexed Rect, or the pass panics.  chunks_index counts from 0.           *)
StatusAt(s, chunks, chunks_index, pick) ==
  IF chunks_index < Len(chunks)
  THEN draw_status_block(s, chunks[chunks_index + 1], pick.status_chunks,
                         pick.context_chunks, pick.cpu_label, pick.mem_label)
  ELSE Panic(s)

FilterAt(s, chunks, chunks_index, checks) ==
  IF s.panicked THEN s
  ELSE IF chunks_index < Len(chunks)
       THEN draw_filter(s, chunks[chunks_index + 1], checks)
       ELSE Panic(s)

(* the resource tabs drawn on chunks[0], the index never advanced *)
TabsAt_FirstChunk(s, chunks, chunks_index) ==
  IF s.panicked THEN s
  ELSE IF 0 < Len(chunks)
       THEN draw_resource_tabs_block(s, chunks[1])
       ELSE Panic(s)

TabsAt(s, chunks, chunks_index) ==
  IF s.panicked THEN s
  ELSE IF chunks_index < Len(chunks)
       THEN draw_resource_tabs_block(s, chunks[chunks_index + 1])
       ELSE Panic(s)

(* pick.chunks is the split chosen among vertical_chunks(Constraints(app), area) *)
draw_overview(s, area, pick, checks) ==
  LET chunks == pick.chunks
      i0 == 0
      s1 == IF s.app.show_info_bar THEN StatusAt(s, chunks, i0, pick) ELSE s
      i1 == IF s.app.show_info_bar THEN i0 + 1 ELSE i0
      s2 == IF s.app.show_filter THEN FilterAt(s1, chunks, i1, checks) ELSE s1
      i2 == IF s.app.show_filter THEN i1 + 1 ELSE i1
  IN TabsAt(s2, chunks, i2)

----------------------------------------------------------------------------
(* The inputs: application states the renderers can be handed *)

NsNames ==
  <<"default", "kube-system", "kube-public", "kube-node-lease", "dev", "staging",
    "prod", "monitoring", "ingress", "logging">>

NsItems(n) == [i \in 1..n |-> [name |-> NsNames[i], status |-> "Active"]]

(* a namespace list of n entries with its table cursor; a fresh table scrolls from row 0 *)
Namespaces(n) ==
  {[items |-> NsItems(n), state |-> [selected |-> sel, offset |-> 0]] :
     sel \in {None} \cup {Some(i) : i \in 0..(n - 1)}}

SelectedNs == {None, Some("kube-system"), Some("absent")}

CliNames == <<"kubectl", "helm", "docker", "kubectx">>

RECURSIVE CliLists(_)
CliLists(n) ==
  IF n = 0 THEN {<<>>}
  ELSE LET shorter == CliLists(n - 1)
       IN shorter \cup
          {Append(l, [name |-> CliNames[n], version |-> "v1", status |-> st]) :
             l \in {k \in shorter : Len(k) = n - 1}, st \in BOOLEAN}

CpuValues == {-50, 0, 25, 60, 80, 150}

MemValues == {0, 60, 150}

Samples == [cpu_percent : CpuValues, mem_percent : MemValues]

RECURSIVE MetricLists(_)
MetricLists(n) ==
  IF n = 0 THEN {<<>>}
  ELSE LET shorter == MetricLists(n - 1)
       IN shorter \cup {Append(l, m) : l \in {k \in shorter : Len(k) = n - 1}, m \in Samples}

RECURSIVE Filters(_)
Filters(n) == IF n = 0 THEN {<<>>} ELSE {<<>>} \cup {<<"a">> \o f : f \in Filters(n - 1)}

ActiveBlocks == {"Namespaces", "Filter", "Pods"}

SomeContext == Some([name |-> "kind", cluster |-> "kind-cluster", user |-> "admin"])

DefaultApp ==
  [show_info_bar |-> TRUE, show_filter |-> FALSE, active_block |-> "Pods",
   filter |-> <<>>, is_loading |-> FALSE, light_theme |-> FALSE,
   enhanced_graphics |-> FALSE, active_context |-> None,
   namespaces |-> [items |-> <<>>, state |-> [selected |-> None, offset |-> 0]],
   selected_ns |-> None, clis |-> <<>>, node_metrics |-> <<>>]

OverviewAreas == {Rect(0, y, AreaWidth, h) : y \in {0, 3}, h \in {5, 21, 22, MaxHeight}}

PanelAreas == {Rect(0, 0, AreaWidth, h) : h \in {19, MaxHeight}}

GaugeAreas == {Rect(0, 0, AreaWidth, MaxHeight)}

FilterAreas ==
  {Rect(x, y, 40, 3) : x \in {0, 5, U16Max - 2, U16Max - 1, U16Max}, y \in {0, 7, U16Max}}

----------------------------------------------------------------------------
(* The state before any pass *)

Fresh ==
  /\ overflow_checks \in BOOLEAN
  /\ entry = [fn |-> "none", area |-> Rect(0, 0, 0, 0)]
  /\ locals = [constraints |-> <<>>, chunks |-> <<>>]
  /\ calls = <<>>
  /\ frame = <<>>
  /\ cursor = None
  /\ panicked = FALSE
  /\ result = None

(* toggles, focus and filter text vary *)
Init ==
  /\ app \in {[DefaultApp EXCEPT !.show_info_bar = i, !.show_filter = f,
                                 !.active_block = b, !.filter = t] :
                i \in BOOLEAN, f \in BOOLEAN, b \in ActiveBlocks, t \in Filters(MaxFilterLen)}
  /\ Fresh

(* node metrics vary, with and without an active context *)
InitMetrics ==
  /\ app \in {[DefaultApp EXCEPT !.node_metrics = nm, !.active_context = c[1],
                                 !.enhanced_graphics = c[2]] :
                nm \in MetricLists(MaxMetrics), c \in {<<None, FALSE>>, <<SomeContext, TRUE>>}}
  /\ Fresh

(* the lists behind the Namespaces and CLI panels vary *)
InitPanels ==
  /\ app \in {[DefaultApp EXCEPT !.namespaces = ns, !.selected_ns = sel, !.clis = cl,
                                 !.active_block = b, !.is_loading = l] :
                ns \in UNION {Namespaces(n) : n \in 0..MaxNs}, sel \in SelectedNs,
                cl \in CliLists(MaxClis), b \in ActiveBlocks, l \in BOOLEAN}
  /\ Fresh

(* focus, filter text and theme vary, for direct calls of draw_filter *)
InitFilter ==
  /\ app \in {[DefaultApp EXCEPT !.show_filter = TRUE, !.active_block = b, !.filter = t,
                                 !.light_theme = th] :
                b \in ActiveBlocks, t \in Filters(MaxFilterLen), th \in BOOLEAN}
  /\ Fresh

----------------------------------------------------------------------------
(* The render passes *)

Start == [app |-> app, calls |-> <<>>, frame |-> <<>>, cursor |-> None, panicked |-> FALSE]

Pass(s, fn, area, loc) ==
  /\ app' = s.app
  /\ calls' = s.calls
  /\ frame' = s.frame
  /\ cursor' = s.cursor
  /\ panicked' = s.panicked
  /\ entry' = [fn |-> fn, area |-> area]
  /\ locals' = loc
  /\ UNCHANGED <<overflow_checks, result>>

(* one call of draw_overview on a fresh Frame *)
DrawOverview(area) ==
  /\ ~panicked
  /\ LET cs == Constraints(app)
         cpu == get_nm_ratio(app.node_metrics, "cpu_percent")
         mem == get_nm_ratio(app.node_metrics, "mem_percent")
     IN \E chunks \in vertical_chunks(cs, area) :
          \E hch \in (IF app.show_info_bar /\ Len(chunks) >= 1
                      THEN horizontal_chunks(StatusConstraints, chunks[1])
                      ELSE {<<>>}) :
            \E cch \in (IF hch # <<>>
                        THEN vertical_chunks_with_margin(ContextConstraints, hch[2], 1)
                        ELSE {<<>>}) :
              \E lc \in Label(cpu), lm \in Label(mem) :
                Pass(draw_overview(Start, area,
                                   [chunks |-> chunks, status_chunks |-> hch,
                                    context_chunks |-> cch, cpu_label |-> lc,
                                    mem_label |-> lm],
                                   overflow_checks),
                     "draw_overview", area, [constraints |-> cs, chunks |-> chunks])

(* one direct call of the public draw_filter on a fresh Frame *)
DrawFilter(area) ==
  /\ ~panicked
  /\ Pass(draw_filter(Start, area, overflow_checks), "draw_filter", area,
          [constraints |-> <<>>, chunks |-> <<>>])

(* one direct call of get_nm_ratio with a field selector, as the unit test makes *)
GetNmRatio(f) ==
  /\ ~panicked
  /\ result' = Some([field |-> f, value |-> get_nm_ratio(app.node_metrics, f)])
  /\ UNCHANGED <<app, overflow_checks, entry, locals, calls, frame, cursor, panicked>>

Next == \E area \in OverviewAreas : DrawOverview(area)

NextMetrics ==
  \/ \E area \in GaugeAreas : DrawOverview(area)
  \/ \E f \in {"cpu_percent", "mem_percent"} : GetNmRatio(f)

NextPanels == \E area \in PanelAreas : DrawOverview(area)

NextFilter == \E area \in FilterAreas : DrawFilter(area)

Spec == Init /\ [][Next]_vars

SpecMetrics == InitMetrics /\ [][NextMetrics]_vars

SpecPanels == InitPanels /\ [][NextPanels]_vars

SpecFilter == InitFilter /\ [][NextFilter]_vars

----------------------------------------------------------------------------
(* What the properties below read off a pass *)

B2N(b) == IF b THEN 1 ELSE 0

OverviewDone == entry.fn = "draw_overview"

CallsOf(fn) == {i \in DOMAIN calls : calls[i].fn = fn}

Widgets(panel, kinds) ==
  {i \in DOMAIN frame : frame[i].panel = panel /\ frame[i].widget \in kinds}

GaugeOf(title) ==
  {i \in DOMAIN frame : frame[i].widget = "gauge" /\ frame[i].title = title}

Gauges == {i \in DOMAIN frame : frame[i].widget = "gauge"}

FieldOf(title) == IF title = "CPU:" THEN "cpu_percent" ELSE "mem_percent"

(* the sum of one field over the samples, by index *)
Total(nm, f) ==
  LET S[i \in 0..Len(nm)] == IF i = 0 THEN 0 ELSE S[i - 1] + nm[i][f]
  IN S[Len(nm)]

(* the f64 r equals the mean of field f over nm, divided by 100 *)
IsMeanOver100(r, nm, f) == r.den > 0 /\ r.num * 100 * Len(nm) = r.den * Total(nm, f)

(* pct is Total / N rounded to a nearest integer *)
IsRounded(lab, nm, f) ==
  /\ ~lab.nan
  /\ IF nm = <<>> THEN lab.pct = 0
     ELSE LET d == lab.pct * Len(nm) - Total(nm, f) IN 2 * Abs(d) <= Len(nm)

Needed(a) == 10 + 9 * B2N(a.show_info_bar) + 3 * B2N(a.show_filter)

Tiles(chunks, area) ==
  /\ \A i \in DOMAIN chunks :
       /\ chunks[i].height >= 0
       /\ chunks[i].y = (IF i = 1 THEN area.y ELSE chunks[i - 1].y + chunks[i - 1].height)
  /\ \A i, j \in DOMAIN chunks :
       i < j => chunks[i].y + chunks[i].height <= chunks[j].y

HeightSum(chunks) ==
  LET S[i \in 0..Len(chunks)] == IF i = 0 THEN 0 ELSE S[i - 1] + chunks[i].height
  IN S[Len(chunks)]

----------------------------------------------------------------------------
(* C1: for each combination of show_info_bar and show_filter, draw_overview *)
(* builds 1 + [show_info_bar] + [show_filter] regions in the order status   *)
(* bar Length(9), filter bar Length(3), resource tabs Min(10); it calls     *)
(* draw_status_block iff show_info_bar, on the status region, draw_filter   *)
(* iff show_filter, on the filter region, and draw_resource_tabs_block      *)
(* exactly once, last, on the last region; no chunk index is out of range.  *)
C1_RegionsAndDispatch ==
  OverviewDone =>
    LET cs == locals.constraints
        ch == locals.chunks
        n == 1 + B2N(app.show_info_bar) + B2N(app.show_filter)
    IN /\ ~panicked
       /\ Len(cs) = n
       /\ Len(ch) = n
       /\ cs = (IF app.show_info_bar THEN <<Length(9)>> ELSE <<>>)
               \o (IF app.show_filter THEN <<Length(3)>> ELSE <<>>)
               \o <<Min(10)>>
       /\ Cardinality(CallsOf("draw_status_block")) = B2N(app.show_info_bar)
       /\ \A i \in CallsOf("draw_status_block") : calls[i].area = ch[1]
       /\ Cardinality(CallsOf("draw_filter")) = B2N(app.show_filter)
       /\ \A i \in CallsOf("draw_filter") : calls[i].area = ch[B2N(app.show_info_bar) + 1]
       /\ CallsOf("draw_resource_tabs_block") = {Len(calls)}
       /\ calls[Len(calls)].area = ch[n]

C1_Witness ==
  /\ OverviewDone
  /\ app.show_info_bar
  /\ app.show_filter
  /\ Len(locals.chunks) = 3
  /\ CallsOf("draw_resource_tabs_block") # {}

(* C2, as claimed: for every area height and every toggle combination the   *)
(* region handed to the resource-tabs renderer is at least 10 rows high,    *)
(* the regions do not overlap and their heights sum to at most the height   *)
(* of the area.                                                             *)
C2_TabsAlwaysTen ==
  OverviewDone =>
    /\ \A i \in CallsOf("draw_resource_tabs_block") : calls[i].area.height >= 10
    /\ Tiles(locals.chunks, entry.area)
    /\ HeightSum(locals.chunks) <= entry.area.height

(* C2, amended: the regions never overlap and their heights sum to the      *)
(* height of the area; the region handed to the resource-tabs renderer is   *)
(* at least 10 rows high whenever the area has the 10 rows plus 9 for a     *)
(* shown status bar plus 3 for a shown filter bar.                          *)
C2_TabsTenWhenFits ==
  OverviewDone =>
    /\ Tiles(locals.chunks, entry.area)
    /\ HeightSum(locals.chunks) = entry.area.height
    /\ CallsOf("draw_resource_tabs_block") # {}
    /\ entry.area.height >= Needed(app) =>
         \A i \in CallsOf("draw_resource_tabs_block") :
           /\ calls[i].area.height >= 10
           /\ calls[i].area.height = entry.area.height - (Needed(app) - 10)

C2_Witness ==
  /\ OverviewDone
  /\ app.show_info_bar
  /\ app.show_filter
  /\ entry.area.height = 22
  /\ \E i \in CallsOf("draw_resource_tabs_block") : calls[i].area.height = 10

(* C3, as claimed: for every sample collection, averages above 100 and      *)
(* values below 0 included, the ratio handed to the CPU gauge and to the    *)
(* Memory gauge lies in [0, 1].                                             *)
C3_GaugeRatioInUnit ==
  \A i \in Gauges :
    /\ frame[i].ratio.den > 0
    /\ 0 <= frame[i].ratio.num
    /\ frame[i].ratio.num <= frame[i].ratio.den

(* C3, for the upper bound alone: no gauge receives NaN or a ratio above 1, *)
(* and a ratio below 0 only when the average of the field is below 0.       *)
C3_GaugeRatioAtMostOne ==
  \A i \in Gauges :
    /\ frame[i].ratio.den > 0
    /\ frame[i].ratio.num <= frame[i].ratio.den
    /\ Total(app.node_metrics, FieldOf(frame[i].title)) >= 0 => frame[i].ratio.num >= 0

(* C4: for every non-empty sample collection and either field, get_nm_ratio *)
(* returns the arithmetic mean of the field divided by 100, unclamped and   *)
(* with zero entries counted; for one sample that is value / 100, and for   *)
(* the values 80, 60 it is 0.7.                                             *)
C4_MeanOver100 ==
  (result # None /\ app.node_metrics # <<>>) =>
    LET r == result[1].value
        f == result[1].field
        nm == app.node_metrics
    IN /\ IsMeanOver100(r, nm, f)
       /\ Len(nm) = 1 => r = Frac(nm[1][f], 100)
       /\ (Len(nm) = 2 /\ nm[1][f] = 80 /\ nm[2][f] = 60) => r = [num |-> 7, den |-> 10]

C4_Witness ==
  /\ result # None
  /\ result[1].field = "cpu_percent"
  /\ Len(app.node_metrics) = 2
  /\ app.node_metrics[1].cpu_percent = 80
  /\ app.node_metrics[2].cpu_percent = 60
  /\ result[1].value = [num |-> 7, den |-> 10]

(* C5: with no samples get_nm_ratio returns exactly 0 for either field, not *)
(* the NaN a division by the length would give; both gauges are rendered    *)
(* with ratio 0 and label "0%", and the pass does not panic.                *)
C5_EmptyIsZero ==
  app.node_metrics = <<>> =>
    /\ result # None => result[1].value = [num |-> 0, den |-> 1]
    /\ ~panicked
    /\ (OverviewDone /\ app.show_info_bar) =>
         /\ Cardinality(GaugeOf("CPU:")) = 1
         /\ Cardinality(GaugeOf("Memory:")) = 1
         /\ \A i \in Gauges :
              /\ frame[i].ratio = [num |-> 0, den |-> 1]
              /\ frame[i].label = [nan |-> FALSE, pct |-> 0]

C5_Witness ==
  /\ app.node_metrics = <<>>
  /\ result # None
  /\ OverviewDone
  /\ Cardinality(Gauges) = 2

(* C6: when the average of a field exceeds 100 its gauge receives ratio     *)
(* exactly 1 and the label is the unclamped percentage rounded to an        *)
(* integer (average 150: ratio 1, label "150%"); when the average is at     *)
(* most 100 the gauge receives the aggregated ratio and the label is its    *)
(* rounded percentage.                                                      *)
C6_ClampedFillUnclampedLabel ==
  \A i \in Gauges :
    LET nm == app.node_metrics
        f == FieldOf(frame[i].title)
        g == frame[i]
    IN nm # <<>> =>
         /\ IsRounded(g.label, nm, f)
         /\ Total(nm, f) > 100 * Len(nm) => g.ratio = [num |-> 1, den |-> 1]
         /\ Total(nm, f) <= 100 * Len(nm) => IsMeanOver100(g.ratio, nm, f)
         /\ Total(nm, f) = 150 * Len(nm) => g.label.pct = 150

C6_Witness ==
  \E i \in GaugeOf("CPU:") :
    /\ Len(app.node_metrics) = 1
    /\ app.node_metrics[1].cpu_percent = 150
    /\ frame[i].ratio = [num |-> 1, den |-> 1]
    /\ frame[i].label = [nan |-> FALSE, pct |-> 150]

(* C7: every render of the Namespaces panel and of the CLI Versions panel   *)
(* draws exactly one of data table and placeholder: the table iff the list  *)
(* behind the panel is non-empty.  is_loading never decides whether a       *)
(* placeholder appears; it is only handed to the placeholder renderer.      *)
C7_TableXorPlaceholder ==
  LET One(panel, fn, list) ==
        CallsOf(fn) # {} =>
          /\ Cardinality(Widgets(panel, {"table", "placeholder"})) = 1
          /\ \A i \in Widgets(panel, {"table", "placeholder"}) :
               /\ frame[i].widget = "table" <=> list # <<>>
               /\ frame[i].widget = "placeholder" => frame[i].is_loading = app.is_loading
  IN /\ One("namespaces", "draw_namespaces_block", app.namespaces.items)
     /\ One("cli", "draw_cli_version_block", app.clis)
     /\ OverviewDone /\ app.show_info_bar =>
          /\ CallsOf("draw_namespaces_block") # {}
          /\ CallsOf("draw_cli_version_block") # {}

C7_Witness ==
  /\ OverviewDone
  /\ app.is_loading
  /\ Widgets("namespaces", {"placeholder"}) # {}
  /\ Widgets("cli", {"table"}) # {}

(* C8, as claimed: a render pass leaves all application state unchanged,    *)
(* the namespace table's scroll and selection state included.               *)
C8_AppUnchanged == [][app' = app]_vars

(* C8, amended: a render pass leaves all application state unchanged but    *)
(* for the scroll offset of the namespace table, which the table widget     *)
(* rewrites through the &mut TableState it is handed; toggles, filter text, *)
(* namespace list, selected namespace, CLI list, node metrics, active       *)
(* context, route and the table's selected row are as before the pass.      *)
C8_OnlyOffsetChanges ==
  [][app' = [app EXCEPT !.namespaces.state.offset = app'.namespaces.state.offset]]_vars

C8_Witness ==
  /\ OverviewDone
  /\ app.namespaces.state.offset > 0
  /\ app.namespaces.state.selected # None

(* C9, as claimed: draw_filter sets the cursor iff the active block is      *)
(* Filter, at exactly (area.x + 2 + filter length, area.y + 1), for every   *)
(* filter length and every origin a u16 Rect can have; otherwise no cursor  *)
(* is set and the border keeps the default style.                           *)
C9_CursorExact ==
  entry.fn = "draw_filter" =>
    /\ cursor # None <=> app.active_block = "Filter"
    /\ cursor # None =>
         cursor = Some(<<entry.area.x + 2 + Len(app.filter), entry.area.y + 1>>)
    /\ app.active_block # "Filter" =>
         \A i \in Widgets("filter", {"paragraph"}) :
           frame[i].block = layout_block_default(FilterTitle)

(* C9, where the position fits a u16: the cursor is as claimed wherever     *)
(* area.x + 2 + filter length and area.y + 1 are at most u16::MAX; when the *)
(* active block is not Filter no cursor is set and the border keeps the     *)
(* default style, whatever the Rect.                                        *)
C9_CursorExactInRange ==
  entry.fn = "draw_filter" =>
    LET x == entry.area.x + 2 + Len(app.filter)
        y == entry.area.y + 1
        active == app.active_block = "Filter"
    IN /\ (active /\ x <= U16Max /\ y <= U16Max) =>
            /\ ~panicked
            /\ cursor = Some(<<x, y>>)
            /\ \A i \in Widgets("filter", {"paragraph"}) :
                 frame[i].block.style = style_secondary(app.light_theme)
       /\ ~active =>
            /\ ~panicked
            /\ cursor = None
            /\ Cardinality(Widgets("filter", {"paragraph"})) = 1
            /\ \A i \in Widgets("filter", {"paragraph"}) :
                 frame[i].block = layout_block_default(FilterTitle)

C9_Witness ==
  /\ entry.fn = "draw_filter"
  /\ app.active_block = "Filter"
  /\ Len(app.filter) > 0
  /\ entry.area.x > 0
  /\ cursor = Some(<<entry.area.x + 2 + Len(app.filter), entry.area.y + 1>>)

(* C10: in the Namespaces table a row has the selected style iff its name   *)
(* is the selected namespace name, and the default data style otherwise:    *)
(* the styles are a function of the list and the selected name alone, the   *)
(* same in every render whatever the table cursor, the active block or the  *)
(* loading flag.                                                            *)
C10_RowStyleBySelectedName ==
  \A k \in Widgets("namespaces", {"table"}) :
    /\ Len(frame[k].rows) = Len(app.namespaces.items)
    /\ \A i \in DOMAIN frame[k].rows :
         /\ frame[k].rows[i].name = app.namespaces.items[i].name
         /\ frame[k].rows[i].style =
              (IF app.selected_ns # None /\ app.selected_ns[1] = app.namespaces.items[i].name
               THEN style_secondary(app.light_theme)
               ELSE style_primary(app.light_theme))

C10_Witness ==
  \E k \in Widgets("namespaces", {"table"}) :
    /\ app.namespaces.state.selected = Some(0)
    /\ app.active_block = "Namespaces"
    /\ Len(frame[k].rows) >= 3
    /\ frame[k].rows[2].style = style_secondary(app.light_theme)
    /\ frame[k].rows[1].style = style_primary(app.light_theme)

====
